---- MODULE Spec2Model ----
(***************************************************************************)
(* Model of codigo_python_raspberry.py: the LoRa serial data logger.       *)
(*                                                                         *)
(* A text is a sequence of symbols.  A symbol is either one separator      *)
(* character (",", " ", "\n", ":") or a run of other characters that the   *)
(* program never looks inside ("DATA", "10.0", "Packet").  split, strip    *)
(* and startswith are modelled on these sequences as Python computes them  *)
(* on characters.                                                          *)
(*                                                                         *)
(* A float is a record [nan, v]: v counts 1/256ths, which are exact        *)
(* binary fractions, so parsing and "%.2f" formatting are exact.           *)
(* An optional value is <<>> (None) or <<x>>.                              *)
(***************************************************************************)
EXTENDS Integers, Sequences, FiniteSets, TLC

VARIABLES current_csv_log, last_distance, last_lost, line, files, now, out,
          running, log_calls, opened

vars == <<current_csv_log, last_distance, last_lost, line, files, now, out,
          running, log_calls, opened>>

(* Bounds of the model. *)
MaxTime == 1
MaxRecords == 2

None == <<>>
Some(x) == <<x>>

Min(a, b) == IF a < b THEN a ELSE b

(***************************************************************************)
(* Text operations                                                          *)
(***************************************************************************)
IsSpace(c) == c \in {" ", "\t", "\n", "\r"}

StartsWith(s, p) == Len(s) >= Len(p) /\ SubSeq(s, 1, Len(p)) = p

RECURSIVE LStrip(_)
LStrip(s) == IF s # <<>> /\ IsSpace(Head(s)) THEN LStrip(Tail(s)) ELSE s

RECURSIVE RStrip(_)
RStrip(s) == IF s # <<>> /\ IsSpace(s[Len(s)])
             THEN RStrip(SubSeq(s, 1, Len(s) - 1))
             ELSE s

Strip(s) == RStrip(LStrip(s))

(* str.split(sep): the fields between occurrences of sep, empty ones kept. *)
RECURSIVE SplitOn(_, _)
SplitOn(s, sep) ==
    IF s = <<>> THEN << <<>> >>
    ELSE LET rest == SplitOn(Tail(s), sep)
         IN  IF Head(s) = sep
             THEN << <<>> >> \o rest
             ELSE << <<Head(s)>> \o rest[1] >> \o Tail(rest)

(* str.split(): the maximal runs of non-whitespace. *)
RECURSIVE SplitWs(_)
SplitWs(s) ==
    IF s = <<>> THEN <<>>
    ELSE LET rest == SplitWs(Tail(s))
         IN  IF IsSpace(Head(s)) THEN rest
             ELSE IF Len(s) > 1 /\ ~IsSpace(s[2])
                  THEN << <<Head(s)>> \o rest[1] >> \o Tail(rest)
                  ELSE << <<Head(s)>> >> \o rest

(***************************************************************************)
(* Numbers                                                                  *)
(***************************************************************************)
Num(v) == [nan |-> FALSE, v |-> v]
NaN == [nan |-> TRUE, v |-> 0]

FEq(a, b) == ~a.nan /\ ~b.nan /\ a.v = b.v
FNe(a, b) == ~FEq(a, b)
FLe(a, b) == ~a.nan /\ ~b.nan /\ a.v <= b.v
FGt(a, b) == ~a.nan /\ ~b.nan /\ a.v > b.v
Zero == Num(0)

(* The numerals the device is taken to send, with the value float() gives. *)
FloatTable ==
    [s \in {"0", "00", "0.0", "1", "3", "5", "7", "9", "2.75", "5.0", "10.0",
            "10.00390625", "15.0", "-5.0", "nan"} |->
        CASE s \in {"0", "00", "0.0"} -> Zero
          [] s = "1" -> Num(256)
          [] s = "3" -> Num(768)
          [] s = "5" -> Num(1280)
          [] s = "7" -> Num(1792)
          [] s = "9" -> Num(2304)
          [] s = "2.75" -> Num(704)
          [] s = "5.0" -> Num(1280)
          [] s = "10.0" -> Num(2560)
          [] s = "10.00390625" -> Num(2561)
          [] s = "15.0" -> Num(3840)
          [] s = "-5.0" -> Num(-1280)
          [] s = "nan" -> NaN]

(* Mutant of ParseFloat: an unparsable text counts as 0.0 instead of raising. *)
ParseFloat_DefaultZero(text) ==
    LET t == Strip(text)
    IN  IF Len(t) = 1 /\ t[1] \in DOMAIN FloatTable
        THEN Some(FloatTable[t[1]])
        ELSE Some(Zero)

(* float(text): surrounding whitespace is ignored; None when it raises. *)
ParseFloat(text) ==
    LET t == Strip(text)
    IN  IF Len(t) = 1 /\ t[1] \in DOMAIN FloatTable
        THEN Some(FloatTable[t[1]])
        ELSE None

Abs(n) == IF n < 0 THEN -n ELSE n

(* int(x) of a float: truncation toward zero; None when it raises (nan). *)
IntOfFloat(x) ==
    IF x.nan THEN None
    ELSE Some(IF x.v < 0 THEN -(Abs(x.v) \div 256) ELSE x.v \div 256)

(* str(n) of an int, as a text. *)
StrOfInt(n) == <<ToString(n)>>

(* f"{x:.2f}": round half to even on the exact value. *)
Fmt2(x) ==
    IF x.nan THEN "nan"
    ELSE LET a == Abs(x.v) * 25
             q == a \div 64
             r == a % 64
             h == IF r > 32 \/ (r = 32 /\ q % 2 = 1) THEN q + 1 ELSE q
             c == h % 100
         IN  (IF x.v < 0 THEN "-" ELSE "") \o ToString(h \div 100) \o "." \o
             (IF c < 10 THEN "0" ELSE "") \o ToString(c)

(* datetime.now().strftime(...): the wall-clock second, as text. *)
Strftime(t) == "T" \o ToString(t)


(***************************************************************************)
(* Lines the device can send                                                *)
(***************************************************************************)
RECURSIVE JoinComma(_)
JoinComma(fields) ==
    IF Len(fields) = 1 THEN fields[1]
    ELSE fields[1] \o <<",">> \o JoinComma(Tail(fields))

(* A complete DATA line as sent, with its line terminator. *)
DataRaw(dist, lost, total) ==
    JoinComma(<< <<"DATA">>, <<"100">>, <<"1">>, dist, <<"5">>, lost,
                 <<"-70">>, <<"9.5">>, total, <<"0.5">> >>) \o <<"\r", "\n">>

GapPrefix == <<"Large", " ", "gap", " ", "detected">>
LostPrefix == <<"LOST", ":">>
DataPrefix == <<"DATA", ",">>

DataLines ==
    { DataRaw(<<"10.0">>, <<"3">>, <<"7">>),
      DataRaw(<<"10.00390625">>, <<"1">>, <<" ", "0">>),
      DataRaw(<<"15.0">>, <<"x">>, <<"0">>),
      DataRaw(<<"0.0">>, <<"9">>, <<"00">>),
      DataRaw(<<"abc">>, <<"1">>, <<"7">>),
      (* 6 fields *)
      JoinComma(<< <<"DATA">>, <<"100">>, <<"1">>, <<"10.0">>, <<"5">>, <<"3">> >>)
          \o <<"\n">> }

LostLines ==
    { <<" ">> \o LostPrefix \o <<" ", "Packet", " ", "9">> \o <<"\r", "\n">>,
      LostPrefix \o <<"\n">> }

GapLines ==
    { GapPrefix \o <<":", " ", "5", "\n">>,
      GapPrefix \o <<" ">> \o DataRaw(<<"15.0">>, <<"3">>, <<"7">>) }

OtherLines == { <<"DATA", "\n">> }

EmptyLines == { <<"\r", "\n">> }

RawLines == DataLines \cup LostLines \cup GapLines \cup OtherLines \cup EmptyLines

(* The four readings 10.0, 10.0, 0.0, 15.0 with the lost counts 3, 1, 9, x. *)
Scenario ==
    << DataRaw(<<"10.0">>, <<"3">>, <<"7">>),
       DataRaw(<<"10.0">>, <<"1">>, <<"7">>),
       DataRaw(<<"0.0">>, <<"9">>, <<"00">>),
       DataRaw(<<"15.0">>, <<"x">>, <<"0">>) >>

(* Readings a device can also send: a negative distance and "nan", which   *)
(* float() accepts.                                                        *)
SignedLines ==
    { DataRaw(<<"-5.0">>, <<"3">>, <<"7">>),
      DataRaw(<<"nan">>, <<"3">>, <<"7">>) }

AllRawLines == RawLines \cup {Scenario[i] : i \in DOMAIN Scenario} \cup SignedLines

(* ser.readline().decode(...).strip().  The results over the lines are     *)
(* tabulated once, which only saves recomputing them in every state.       *)
Stripped == [raw \in AllRawLines |-> Strip(raw)]
Decode(raw) == Stripped[raw]

Lines == {Strip(raw) : raw \in AllRawLines}

(* line.split(","), tabulated over Lines for the same reason. *)
SplitComma == [ln \in Lines |-> SplitOn(ln, ",")]

(* line.split(), tabulated over Lines. *)
SplitBlank == [ln \in Lines |-> SplitWs(ln)]


(***************************************************************************)
(* The program's functions                                                  *)
(***************************************************************************)
CSV_HEADERS == <<"Timestamp", "Event", "MessageNumber", "Distance(m)",
                 "Received", "Lost", "RSSI", "SNR", "TotalPackets", "LossRate">>

HeaderRow == [i \in 1..Len(CSV_HEADERS) |-> <<CSV_HEADERS[i]>>]

(* csv.DictWriter.writerow: the values in the order of the field names. *)
RowOf(data) == [i \in 1..Len(CSV_HEADERS) |-> data[CSV_HEADERS[i]]]

DataDict(parts, t) ==
    [k \in {CSV_HEADERS[i] : i \in 1..Len(CSV_HEADERS)} |->
        CASE k = "Timestamp" -> <<Strftime(t)>>
          [] k = "Event" -> <<"DATA">>
          [] k = "MessageNumber" -> parts[3]
          [] k = "Distance(m)" -> parts[4]
          [] k = "Received" -> parts[5]
          [] k = "Lost" -> parts[6]
          [] k = "RSSI" -> parts[7]
          [] k = "SNR" -> parts[8]
          [] k = "TotalPackets" -> parts[9]
          [] k = "LossRate" -> Strip(parts[10])]

(* Mutant of process_data_line: TotalPackets compared with "0" unstripped. *)
process_data_line_NoStrip(ln, t) ==
    LET parts == SplitComma[ln]
    IN  IF Len(parts) < 10 THEN None
        ELSE LET data == DataDict(parts, t)
             IN  Some(IF data["TotalPackets"] = <<"0">>
                      THEN [data EXCEPT !["TotalPackets"] = data["Received"]]
                      ELSE data)

(* Mutant of process_data_line: TotalPackets is parsed as a number and     *)
(* compared with 0.                                                        *)
process_data_line_ParsesZero(ln, t) ==
    LET parts == SplitComma[ln]
    IN  IF Len(parts) < 10 THEN None
        ELSE LET data == DataDict(parts, t)
             IN  Some(IF ParseFloat(data["TotalPackets"]) = Some(Zero)
                      THEN [data EXCEPT !["TotalPackets"] = data["Received"]]
                      ELSE data)

(* Mutant of process_data_line: a short line is accepted, its missing      *)
(* fields taken as empty.                                                  *)
process_data_line_Padded(ln, t) ==
    LET parts == SplitComma[ln]
        padded == [i \in 1..10 |-> IF i <= Len(parts) THEN parts[i] ELSE <<>>]
    IN  IF Len(parts) < 4 THEN None
        ELSE LET data == DataDict(padded, t)
             IN  Some(IF Strip(data["TotalPackets"]) = <<"0">>
                      THEN [data EXCEPT !["TotalPackets"] = data["Received"]]
                      ELSE data)

(* process_data_line, called at wall-clock second t; None or Some(dict). *)
process_data_line(ln, t) ==
    LET parts == SplitComma[ln]
    IN  IF Len(parts) < 10 THEN None
        ELSE LET data == DataDict(parts, t)
             IN  Some(IF Strip(data["TotalPackets"]) = <<"0">>
                      THEN [data EXCEPT !["TotalPackets"] = data["Received"]]
                      ELSE data)

(* Mutant of process_lost_line: the first token is taken, not the last. *)
process_lost_line_FirstToken(ln, t) ==
    LET parts == SplitBlank[ln]
    IN  IF parts = <<>> THEN None
        ELSE Some([k \in {CSV_HEADERS[i] : i \in 1..Len(CSV_HEADERS)} |->
                      CASE k = "Timestamp" -> <<Strftime(t)>>
                        [] k = "Event" -> <<"LOST">>
                        [] k = "MessageNumber" -> parts[1]
                        [] OTHER -> <<>>])

(* process_lost_line, called at wall-clock second t; None or Some(dict). *)
process_lost_line(ln, t) ==
    LET parts == SplitBlank[ln]
    IN  IF parts = <<>> THEN None
        ELSE Some([k \in {CSV_HEADERS[i] : i \in 1..Len(CSV_HEADERS)} |->
                      CASE k = "Timestamp" -> <<Strftime(t)>>
                        [] k = "Event" -> <<"LOST">>
                        [] k = "MessageNumber" -> parts[Len(parts)]
                        [] OTHER -> <<>>])

(* How a call of log_data can end: the rows reach the file; open() raises  *)
(* and nothing happens; or open() succeeds, which creates a missing file,  *)
(* and the buffered rows are lost when the write raises at flush or close. *)
WriteOutcomes == {"ok", "open_fails", "close_fails"}

(* Mutant of log_data: the file is opened with mode "w", so a write to an  *)
(* existing file replaces its rows.                                        *)
log_data_Truncates(fs, data, csv_log, wr) ==
    LET file_exists == csv_log \in DOMAIN fs
    IN  CASE wr = "open_fails" -> fs
          [] wr = "close_fails" ->
               IF file_exists THEN fs ELSE fs @@ (csv_log :> <<>>)
          [] OTHER ->
               IF file_exists
               THEN [fs EXCEPT ![csv_log] = <<RowOf(data)>>]
               ELSE fs @@ (csv_log :> <<HeaderRow, RowOf(data)>>)

(* Mutant of log_data: a write that fails at close is reported, and its    *)
(* row reaches the file all the same.                                      *)
log_data_FailedWriteLands(fs, data, csv_log, wr) ==
    LET file_exists == csv_log \in DOMAIN fs
    IN  CASE wr = "open_fails" -> fs
          [] OTHER ->
               IF file_exists
               THEN [fs EXCEPT ![csv_log] = Append(@, RowOf(data))]
               ELSE fs @@ (csv_log :> <<HeaderRow, RowOf(data)>>)

(* log_data: the files after the call; wr is how the write ends.  A file   *)
(* is the sequence of its rows.                                            *)
log_data(fs, data, csv_log, wr) ==
    LET file_exists == csv_log \in DOMAIN fs
    IN  CASE wr = "open_fails" -> fs
          [] wr = "close_fails" ->
               IF file_exists THEN fs ELSE fs @@ (csv_log :> <<>>)
          [] OTHER ->
               IF file_exists
               THEN [fs EXCEPT ![csv_log] = Append(@, RowOf(data))]
               ELSE fs @@ (csv_log :> <<HeaderRow, RowOf(data)>>)

(* What log_data prints. *)
log_msg(wr) == IF wr = "ok" THEN "Logged" ELSE "CsvError"

(* Mutant of SessionPath: the distance is written in whole metres. *)
SessionPath_WholeMetres(current_distance, t) ==
    "lora_data_"
        \o (IF current_distance.nan THEN "nan"
            ELSE ToString(current_distance.v \div 256))
        \o "m_" \o Strftime(t) \o ".csv"

(* The log file name of a session: distance to 2 decimals and start second. *)
SessionPath(current_distance, t) ==
    "lora_data_" \o Fmt2(current_distance) \o "m_" \o Strftime(t) \o ".csv"

(* Mutant of IsTransient: the last distance is tested for being 0.0. *)
IsTransient_LastZero(ld, current_distance) ==
    ld # None /\ FEq(current_distance, Zero) /\ FEq(ld[1], Zero)

(* The transient-zero test of main. *)
IsTransient(ld, current_distance) ==
    ld # None /\ FEq(current_distance, Zero) /\ FNe(ld[1], Zero)

(* int(float(data["Lost"])), 0 when it raises. *)
CurrentLost(text) ==
    LET f == ParseFloat(text)
    IN  IF f = None THEN 0
        ELSE IF IntOfFloat(f[1]) = None THEN 0 ELSE IntOfFloat(f[1])[1]

(* Mutant of LogFile: the record goes to the file that was current before  *)
(* the session decision.                                                   *)
LogFile_Before(before, after) == IF before # None THEN before ELSE after

(* The file main hands to log_data for a DATA record: current_csv_log as it *)
(* is after the session decision, not as it was before it.                 *)
LogFile(before, after) == after

(* Mutant of SessionBranch: every distance that differs from the last one  *)
(* opens a session.                                                        *)
SessionBranch_NeOpens(ld, current_distance) ==
    IF ld = None THEN "first"
    ELSE IF FNe(current_distance, ld[1]) THEN "higher"
    ELSE "none"

(* Mutant of SessionBranch: an equal distance opens a session too. *)
SessionBranch_GeOpens(ld, current_distance) ==
    IF ld = None THEN "first"
    ELSE IF FLe(current_distance, ld[1]) /\ FNe(current_distance, ld[1]) THEN "lower"
    ELSE IF ~FLe(current_distance, ld[1]) \/ FEq(current_distance, ld[1]) THEN "higher"
    ELSE "none"

(* Which branch of the session decision of main is taken. *)
SessionBranch(ld, current_distance) ==
    IF ld = None THEN "first"
    ELSE IF FLe(current_distance, ld[1]) /\ FNe(current_distance, ld[1]) THEN "lower"
    ELSE IF FGt(current_distance, ld[1]) THEN "higher"
    ELSE "none"

(* The seconds the wall clock can show after showing t. *)
Later(t) == t..Min(t + 1, MaxTime)

(***************************************************************************)
(* The read loop of main                                                    *)
(***************************************************************************)
Init ==
    /\ current_csv_log = None
    /\ last_distance = None
    /\ last_lost = None
    /\ line = <<>>
    /\ files = <<>>
    /\ now = 0
    /\ out = <<>>
    /\ running = TRUE
    /\ log_calls = 0
    /\ opened = {}

(* ser.in_waiting is 0: sleep 0.1 s. *)
Idle ==
    /\ running
    /\ \E t \in Later(now) : now' = t
    /\ out' = <<>>
    /\ UNCHANGED <<current_csv_log, last_distance, last_lost, line, files,
                   running, log_calls, opened>>

(* A line that is empty after strip. *)
EmptyLine(raw) ==
    /\ running
    /\ Decode(raw) = <<>>
    /\ line' = Decode(raw)
    /\ \E t \in Later(now) : now' = t
    /\ out' = <<>>
    /\ UNCHANGED <<current_csv_log, last_distance, last_lost, files, running,
                   log_calls, opened>>

(* Mutant of GapLine: the gap message resets the Lost count. *)
GapLine_ResetsLost(raw) ==
    /\ running
    /\ Decode(raw) # <<>>
    /\ StartsWith(Decode(raw), GapPrefix)
    /\ line' = Decode(raw)
    /\ \E t \in Later(now) : now' = t
    /\ out' = <<"RAW", "IgnoreGap">>
    /\ last_lost' = IF last_lost # None THEN Some(0) ELSE last_lost
    /\ UNCHANGED <<current_csv_log, last_distance, files, running,
                   log_calls, opened>>

(* A "Large gap detected" line. *)
GapLine(raw) ==
    /\ running
    /\ Decode(raw) # <<>>
    /\ StartsWith(Decode(raw), GapPrefix)
    /\ line' = Decode(raw)
    /\ \E t \in Later(now) : now' = t
    /\ out' = <<"RAW", "IgnoreGap">>
    /\ UNCHANGED <<current_csv_log, last_distance, last_lost, files, running,
                   log_calls, opened>>

(* A "LOST:" line. *)
LostLine(raw, wr) ==
    /\ running
    /\ log_calls < MaxRecords
    /\ Decode(raw) # <<>>
    /\ ~StartsWith(Decode(raw), GapPrefix)
    /\ StartsWith(Decode(raw), LostPrefix)
    /\ line' = Decode(raw)
    /\ \E t \in Later(now) :
         LET lost_data == process_lost_line(Decode(raw), t)
         IN  /\ now' = t
             /\ IF lost_data # None /\ current_csv_log # None
                THEN /\ files' = log_data(files, lost_data[1], current_csv_log[1], wr)
                     /\ out' = <<"RAW", log_msg(wr)>>
                     /\ log_calls' = log_calls + 1
                ELSE /\ files' = files
                     /\ out' = <<"RAW", "NoCsvLog">>
                     /\ log_calls' = log_calls
    /\ UNCHANGED <<current_csv_log, last_distance, last_lost, running, opened>>

(* Where Ctrl+C can reach the handling of an accepted DATA line with an    *)
(* effect of its own: after last_lost is assigned (line 180), or after the *)
(* session decision (lines 185-196) and before log_data runs.  "none" is   *)
(* the handling that runs to its end.                                      *)
CutPoints == {"after_lost", "after_session"}

(* The handling of a "DATA," line by main.  t1 is the second at which      *)
(* process_data_line reads the clock, t2 the second at which the session   *)
(* decision reads it.  With cut in CutPoints, KeyboardInterrupt is raised  *)
(* at that point: the assignments made so far stay, the handler of line    *)
(* 202 prints and the loop ends.                                           *)
DataHandler(raw, wr, cut) ==
    /\ running
    /\ Decode(raw) # <<>>
    /\ ~StartsWith(Decode(raw), GapPrefix)
    /\ ~StartsWith(Decode(raw), LostPrefix)
    /\ StartsWith(Decode(raw), DataPrefix)
    /\ line' = Decode(raw)
    /\ \E t1 \in Later(now) : \E t2 \in Later(t1) :
         LET data == process_data_line(Decode(raw), t1)
             dist == IF data = None THEN None
                     ELSE ParseFloat(data[1]["Distance(m)"])
         IN  /\ now' = t2
             /\ IF data = None
                THEN /\ cut = "none"
                     /\ out' = <<"RAW", "IncompleteData">>
                     /\ UNCHANGED <<current_csv_log, last_distance, last_lost,
                                    files, log_calls, opened, running>>
                ELSE IF dist = None
                THEN /\ cut = "none"
                     /\ out' = <<"RAW", "DistError">>
                     /\ UNCHANGED <<current_csv_log, last_distance, last_lost,
                                    files, log_calls, opened, running>>
                ELSE
                  LET current_distance == dist[1]
                      transient == IsTransient(last_distance, current_distance)
                      data2 == IF transient
                               THEN [data[1] EXCEPT !["Lost"] =
                                       StrOfInt(IF last_lost # None
                                                THEN last_lost[1] ELSE 0)]
                               ELSE data[1]
                      branch == SessionBranch(last_distance, current_distance)
                      newfile == branch \in {"first", "higher"} /\ cut # "after_lost"
                      csv == IF newfile
                             THEN Some(SessionPath(current_distance, t2))
                             ELSE current_csv_log
                      printed == <<"RAW">>
                                 \o (IF transient THEN <<"Transient0">> ELSE <<>>)
                                 \o (CASE cut = "after_lost" -> <<>>
                                       [] branch = "first" -> <<"NewSession">>
                                       [] branch = "lower" -> <<"LowerValue">>
                                       [] branch = "higher" -> <<"NewDistance">>
                                       [] OTHER -> <<>>)
                  IN  /\ last_lost' = IF transient THEN last_lost
                                      ELSE Some(CurrentLost(data[1]["Lost"]))
                      /\ last_distance' = IF newfile THEN Some(current_distance)
                                          ELSE last_distance
                      /\ current_csv_log' = csv
                      /\ opened' = IF newfile THEN opened \cup {csv[1]} ELSE opened
                      /\ IF cut # "none"
                         THEN /\ files' = files
                              /\ log_calls' = log_calls
                              /\ out' = printed \o <<"Exiting">>
                              /\ running' = FALSE
                         ELSE /\ running' = running
                              /\ IF csv # None
                                 THEN /\ files' = log_data(files, data2,
                                                  LogFile(current_csv_log, csv)[1], wr)
                                      /\ log_calls' = log_calls + 1
                                      /\ out' = printed \o <<log_msg(wr)>>
                                 ELSE /\ files' = files
                                      /\ log_calls' = log_calls
                                      /\ out' = printed

(* A "DATA," line, handled to the end. *)
DataLine(raw, wr) ==
    /\ log_calls < MaxRecords
    /\ DataHandler(raw, wr, "none")

(* A line with none of the three prefixes: nothing is done with it. *)
OtherLine(raw) ==
    /\ running
    /\ Decode(raw) # <<>>
    /\ ~StartsWith(Decode(raw), GapPrefix)
    /\ ~StartsWith(Decode(raw), LostPrefix)
    /\ ~StartsWith(Decode(raw), DataPrefix)
    /\ line' = Decode(raw)
    /\ \E t \in Later(now) : now' = t
    /\ out' = <<"RAW">>
    /\ UNCHANGED <<current_csv_log, last_distance, last_lost, files, running,
                   log_calls, opened>>

(* Mutant of ReadFailure: the failure is reported and the loop ends. *)
ReadFailure_Breaks ==
    /\ running
    /\ now < MaxTime
    /\ now' = now + 1
    /\ out' = <<"ReadError">>
    /\ running' = FALSE
    /\ UNCHANGED <<current_csv_log, last_distance, last_lost, line, files,
                   log_calls, opened>>

(* ser.in_waiting or ser.readline() raises: report, sleep 1 s, poll again. *)
ReadFailure ==
    /\ running
    /\ now < MaxTime
    /\ now' = now + 1
    /\ out' = <<"ReadError">>
    /\ UNCHANGED <<current_csv_log, last_distance, last_lost, line, files,
                   running, log_calls, opened>>

(* Ctrl+C between two iterations: the loop ends. *)
Interrupt ==
    /\ running
    /\ running' = FALSE
    /\ out' = <<"Exiting">>
    /\ UNCHANGED <<current_csv_log, last_distance, last_lost, line, files,
                   now, log_calls, opened>>

Next ==
    \/ Idle
    \/ \E raw \in RawLines : EmptyLine(raw)
    \/ \E raw \in RawLines : GapLine(raw)
    \/ \E raw \in RawLines : \E wr \in WriteOutcomes : LostLine(raw, wr)
    \/ \E raw \in RawLines : \E wr \in WriteOutcomes : DataLine(raw, wr)
    \/ \E raw \in RawLines : OtherLine(raw)
    \/ ReadFailure
    \/ Interrupt

Spec == Init /\ [][Next]_vars

(***************************************************************************)
(* The run in which the device sends the readings of Scenario, in order    *)
(***************************************************************************)
(* The next reading of Scenario arrives.  Every reading of Scenario is     *)
(* accepted and so is handed to log_data once: log_calls is the number of  *)
(* readings handled so far.                                                *)
ScenarioLine(wr) ==
    /\ log_calls < Len(Scenario)
    /\ DataHandler(Scenario[log_calls + 1], wr, "none")

NextScenario ==
    \/ Idle
    \/ \E wr \in WriteOutcomes : ScenarioLine(wr)
    \/ ReadFailure
    \/ Interrupt

SpecScenario == Init /\ [][NextScenario]_vars

(***************************************************************************)
(* The runs in which Ctrl+C can arrive anywhere, not only between two      *)
(* iterations                                                              *)
(***************************************************************************)
(* Ctrl+C while an accepted DATA line is handled, at a point of CutPoints. *)
DataLineCancelled(raw, cut) ==
    /\ log_calls < MaxRecords
    /\ DataHandler(raw, "ok", cut)

(* Ctrl+C during the time.sleep(1) of the handler of line 205: the sleep   *)
(* is outside the try block, so the handler of line 202 does not run and   *)
(* KeyboardInterrupt leaves main as a traceback.                           *)
ReadFailureCancelled ==
    /\ running
    /\ running' = FALSE
    /\ out' = <<"ReadError", "Traceback">>
    /\ UNCHANGED <<current_csv_log, last_distance, last_lost, line, files,
                   now, log_calls, opened>>

NextCancel ==
    \/ Idle
    \/ \E raw \in RawLines : EmptyLine(raw)
    \/ \E raw \in RawLines : GapLine(raw)
    \/ \E raw \in RawLines : \E wr \in WriteOutcomes : LostLine(raw, wr)
    \/ \E raw \in RawLines : \E wr \in WriteOutcomes : DataLine(raw, wr)
    \/ \E raw \in RawLines : \E cut \in CutPoints : DataLineCancelled(raw, cut)
    \/ \E raw \in RawLines : OtherLine(raw)
    \/ ReadFailure
    \/ ReadFailureCancelled
    \/ Interrupt

SpecCancel == Init /\ [][NextCancel]_vars

(***************************************************************************)
(* The runs in which the device also sends the readings of SignedLines     *)
(***************************************************************************)
NextSigned ==
    \/ Idle
    \/ \E raw \in AllRawLines : EmptyLine(raw)
    \/ \E raw \in AllRawLines : GapLine(raw)
    \/ \E raw \in AllRawLines : \E wr \in WriteOutcomes : LostLine(raw, wr)
    \/ \E raw \in AllRawLines : \E wr \in WriteOutcomes : DataLine(raw, wr)
    \/ \E raw \in AllRawLines : OtherLine(raw)
    \/ ReadFailure
    \/ Interrupt

SpecSigned == Init /\ [][NextSigned]_vars

TypeOK ==
    /\ Len(current_csv_log) <= 1
    /\ Len(last_distance) <= 1
    /\ Len(last_lost) <= 1
    /\ now \in 0..MaxTime
    /\ running \in BOOLEAN
    /\ log_calls \in 0..MaxRecords

(***************************************************************************)
(* Vocabulary of the properties                                             *)
(***************************************************************************)
(* The step just taken read and processed the non-empty line now in line.  *)
LineStep == out' # <<>> /\ out'[1] = "RAW"

IsGap(ln) == StartsWith(ln, GapPrefix)
IsLost(ln) == ~IsGap(ln) /\ StartsWith(ln, LostPrefix)
IsData(ln) == ~IsGap(ln) /\ ~IsLost(ln) /\ StartsWith(ln, DataPrefix)

(* The comma-separated field of a line, counted from 0 as the device does. *)
Field(ln, i) == SplitComma[ln][i + 1]

(* An accepted DATA reading: 10 or more fields and a distance that parses. *)
Accepted(ln) ==
    /\ IsData(ln)
    /\ Len(SplitComma[ln]) >= 10
    /\ ParseFloat(Field(ln, 3)) # None

Distance(ln) == ParseFloat(Field(ln, 3))[1]

SessionState == <<current_csv_log, last_distance, last_lost>>

(* The step reported a failed write; no file gained or lost a row, and at  *)
(* most a file without rows was created.                                   *)
WriteFailed ==
    /\ out'[Len(out')] = "CsvError"
    /\ DOMAIN files \subseteq DOMAIN files'
    /\ \A f \in DOMAIN files' :
          IF f \in DOMAIN files THEN files'[f] = files[f] ELSE files'[f] = <<>>

(* The step added exactly one row, at the end of file f, creating f with   *)
(* the header when it did not exist, and touched no other file.            *)
AppendedTo(f) ==
    /\ DOMAIN files' = DOMAIN files \cup {f}
    /\ \A g \in DOMAIN files \ {f} : files'[g] = files[g]
    /\ IF f \in DOMAIN files
       THEN /\ Len(files'[f]) = Len(files[f]) + 1
            /\ SubSeq(files'[f], 1, Len(files[f])) = files[f]
       ELSE /\ Len(files'[f]) = 2
            /\ files'[f][1] = HeaderRow

NewRow(f) == files'[f][Len(files'[f])]

(* Columns of a row. *)
ColEvent == 2
ColMessageNumber == 3
ColDistance == 4
ColReceived == 5
ColLost == 6
ColTotalPackets == 9

(* The row is the DATA record of line ln. *)
IsRecordOf(row, ln) ==
    /\ row[ColEvent] = <<"DATA">>
    /\ row[ColMessageNumber] = Field(ln, 2)
    /\ row[ColDistance] = Field(ln, 3)
    /\ row[ColReceived] = Field(ln, 4)

(* The row is the record of line ln, a DATA or a LOST line. *)
IsRecordOfLine(row, ln) ==
    IF IsLost(ln) THEN row[ColEvent] = <<"LOST">> ELSE IsRecordOf(row, ln)

(***************************************************************************)
(* C1: a DATA reading whose distance is strictly greater than every        *)
(* earlier one opens a session identity (file name built from the distance *)
(* to 2 decimals and the second of the clock) that no earlier session of   *)
(* the run had.                                                            *)
(***************************************************************************)
C1_IncreasingOpensDistinctIdentity ==
    [][ (/\ LineStep
         /\ Accepted(line')
         /\ last_distance # None
         /\ FGt(Distance(line'), last_distance[1]))
        => (/\ current_csv_log' # None
            /\ current_csv_log'[1] \notin opened) ]_vars

(***************************************************************************)
(* C2: with a session open, an accepted DATA reading whose distance is at  *)
(* most lastDistance leaves the session identity unchanged, and its record *)
(* is appended to the file of that session (unless the write itself fails  *)
(* and is reported).                                                       *)
(***************************************************************************)
C2_NonIncreasingKeepsSession ==
    [][ (/\ LineStep
         /\ Accepted(line')
         /\ current_csv_log # None
         /\ last_distance # None
         /\ FLe(Distance(line'), last_distance[1]))
        => (/\ current_csv_log' = current_csv_log
            /\ opened' = opened
            /\ \/ WriteFailed
               \/ /\ AppendedTo(current_csv_log[1])
                  /\ IsRecordOf(NewRow(current_csv_log[1]), line')) ]_vars

(* A reading not above lastDistance has been appended to the open session. *)
C2_Witness ==
    /\ current_csv_log # None
    /\ Accepted(line)
    /\ out \in {<<"RAW", "Logged">>, <<"RAW", "LowerValue", "Logged">>}
    /\ current_csv_log[1] \in DOMAIN files
    /\ Len(files[current_csv_log[1]]) = 3

(***************************************************************************)
(* C3: a reading of distance exactly 0.0 while lastDistance is positive    *)
(* changes none of lastDistance, lastLostCount and the session identity;   *)
(* its record goes to the current session with the distance as read and    *)
(* with Lost equal to the lastLostCount held before (0 if none).           *)
(***************************************************************************)
C3_TransientZero ==
    [][ (/\ LineStep
         /\ Accepted(line')
         /\ last_distance # None
         /\ FGt(last_distance[1], Zero)
         /\ FEq(Distance(line'), Zero))
        => (/\ SessionState' = SessionState
            /\ current_csv_log # None
            /\ \/ WriteFailed
               \/ /\ AppendedTo(current_csv_log[1])
                  /\ IsRecordOf(NewRow(current_csv_log[1]), line')
                  /\ NewRow(current_csv_log[1])[ColLost] =
                       <<ToString(IF last_lost = None THEN 0 ELSE last_lost[1])>>) ]_vars

(* A 0.0 reading was logged with a carried Lost that differs from its own. *)
C3_Witness ==
    /\ out = <<"RAW", "Transient0", "LowerValue", "Logged">>
    /\ Accepted(line)
    /\ last_distance # None /\ FGt(last_distance[1], Zero)
    /\ last_lost # None
    /\ Field(line, 5) # <<ToString(last_lost[1])>>
    /\ files[current_csv_log[1]][Len(files[current_csv_log[1]])][ColLost]
          = <<ToString(last_lost[1])>>

(***************************************************************************)
(* C4: a LOST line read while no session was ever opened leaves the        *)
(* session state and every file as they were, and no later step writes a   *)
(* LOST row for it: a LOST row only ever appears in the step that read its *)
(* line, with a session open.  A LOST line read with a session open is     *)
(* appended as a LOST row, carrying the last token of the line, to the     *)
(* current session (unless the write fails and is reported), and leaves    *)
(* the session state as it was.                                            *)
(***************************************************************************)
C4_LostLine ==
    [][ /\ (LineStep /\ IsLost(line') /\ current_csv_log = None)
           => (/\ files' = files
               /\ SessionState' = SessionState
               /\ opened' = opened)
        /\ (LineStep /\ IsLost(line') /\ current_csv_log # None)
           => (/\ SessionState' = SessionState
               /\ opened' = opened
               /\ \/ WriteFailed
                  \/ /\ AppendedTo(current_csv_log[1])
                     /\ NewRow(current_csv_log[1])[ColEvent] = <<"LOST">>
                     /\ NewRow(current_csv_log[1])[ColMessageNumber]
                          = SplitBlank[line'][Len(SplitBlank[line'])])
        /\ (\E f \in DOMAIN files' :
               /\ files'[f] # <<>>
               /\ files'[f][Len(files'[f])][ColEvent] = <<"LOST">>
               /\ (f \notin DOMAIN files \/ Len(files'[f]) > Len(files[f])))
           => (LineStep /\ IsLost(line') /\ current_csv_log # None) ]_vars

(* A "LOST: Packet 9" line was appended to the open session. *)
C4_Witness ==
    /\ current_csv_log # None
    /\ IsLost(line)
    /\ out = <<"RAW", "Logged">>
    /\ files[current_csv_log[1]][Len(files[current_csv_log[1]])][ColEvent] = <<"LOST">>
    /\ files[current_csv_log[1]][Len(files[current_csv_log[1]])][ColMessageNumber] = <<"9">>

C6_GapLineIgnored ==
    [][ (LineStep /\ StartsWith(line', GapPrefix))
        => (/\ files' = files
            /\ SessionState' = SessionState
            /\ opened' = opened) ]_vars

(* A gap line carrying a whole DATA line after the sentinel was read while *)
(* a session was open.                                                     *)
C6_Witness ==
    /\ out = <<"RAW", "IgnoreGap">>
    /\ StartsWith(line, GapPrefix \o <<" ">> \o DataPrefix)
    /\ current_csv_log # None
    /\ last_lost # None

(***************************************************************************)
(* C7: a "DATA," line with fewer than 10 comma-separated fields, and a     *)
(* line with none of the recognised prefixes, produce no record and change *)
(* none of lastDistance, lastLostCount and the session identity.           *)
(***************************************************************************)
Malformed(ln) ==
    \/ StartsWith(ln, DataPrefix) /\ Len(SplitComma[ln]) < 10
    \/ /\ ~StartsWith(ln, GapPrefix)
       /\ ~StartsWith(ln, LostPrefix)
       /\ ~StartsWith(ln, DataPrefix)

C7_MalformedLineIgnored ==
    [][ (LineStep /\ Malformed(line'))
        => (/\ files' = files
            /\ SessionState' = SessionState
            /\ opened' = opened) ]_vars

(* A 6-field DATA line was read while a session was open. *)
C7_Witness ==
    /\ out = <<"RAW", "IncompleteData">>
    /\ StartsWith(line, DataPrefix)
    /\ Len(SplitComma[line]) = 6
    /\ current_csv_log # None

(***************************************************************************)
(* C8: a DATA line whose distance does not parse as a number produces no   *)
(* record, changes none of lastDistance, lastLostCount and the session     *)
(* identity, and the loop keeps running.                                   *)
(***************************************************************************)
IsNumeral(text) == Len(Strip(text)) = 1 /\ Strip(text)[1] \in DOMAIN FloatTable

C8_BadDistanceDropped ==
    [][ (/\ LineStep
         /\ IsData(line')
         /\ Len(SplitComma[line']) >= 10
         /\ ~IsNumeral(Field(line', 3)))
        => (/\ files' = files
            /\ SessionState' = SessionState
            /\ opened' = opened
            /\ running') ]_vars

(* A DATA line with distance "abc" was read while a session was open. *)
C8_Witness ==
    /\ out = <<"RAW", "DistError">>
    /\ IsData(line)
    /\ Field(line, 3) = <<"abc">>
    /\ current_csv_log # None
    /\ running

(***************************************************************************)
(* C9: a line that is "LOST:" with no token after the prefix is malformed: *)
(* no LOST record is appended for it, session open or not.                 *)
(***************************************************************************)
C9_BareLostNotLogged ==
    [][ (LineStep /\ line' = LostPrefix) => files' = files ]_vars

(***************************************************************************)
(* C10 as stated: the persisted TotalPackets of a DATA record is the       *)
(* line's Received field when the line's TotalPackets field is "0", and    *)
(* the TotalPackets text as read otherwise.                                *)
(***************************************************************************)
DataRecordAppended ==
    /\ LineStep
    /\ Accepted(line')
    /\ current_csv_log' # None
    /\ AppendedTo(current_csv_log'[1])

C10_TotalPacketsExactZero ==
    [][ DataRecordAppended
        => NewRow(current_csv_log'[1])[ColTotalPackets] =
             (IF Field(line', 8) = <<"0">>
              THEN Field(line', 4) ELSE Field(line', 8)) ]_vars

(***************************************************************************)
(* C10 amended: the persisted TotalPackets of a DATA record is the line's  *)
(* Received field when the line's TotalPackets field, with surrounding     *)
(* whitespace removed, is "0", and the TotalPackets text as read otherwise.*)
(***************************************************************************)
C10_TotalPacketsStrippedZero ==
    [][ DataRecordAppended
        => NewRow(current_csv_log'[1])[ColTotalPackets] =
             (IF Strip(Field(line', 8)) = <<"0">>
              THEN Field(line', 4) ELSE Field(line', 8)) ]_vars

(* A record whose line had TotalPackets "0" was persisted with Received. *)
C10_Witness ==
    /\ Accepted(line)
    /\ out[Len(out)] = "Logged"
    /\ Strip(Field(line, 8)) = <<"0">>
    /\ current_csv_log # None
    /\ files[current_csv_log[1]][Len(files[current_csv_log[1]])][ColTotalPackets]
         = Field(line, 4)
    /\ Field(line, 4) # Field(line, 8)

(***************************************************************************)
(* C11: from the empty state, the readings 10.0, 10.0, 0.0, 15.0 in that   *)
(* order open exactly two session identities, one encoding 10.0 and one    *)
(* encoding 15.0; the first three records are appended to the 10.0 session *)
(* and the fourth to the 15.0 session (each unless its write fails and is  *)
(* reported), and the Lost field of the 0.0 record is the lost count of    *)
(* the second 10.0 reading.                                                *)
(***************************************************************************)
C11_Scenario ==
    [][ LineStep =>
        LET k == log_calls'
            cur == current_csv_log'[1]
            logged == \/ WriteFailed
                      \/ /\ AppendedTo(cur)
                         /\ IsRecordOf(NewRow(cur), line')
        IN  /\ log_calls = k - 1
            /\ line' = Decode(Scenario[k])
            /\ current_csv_log' # None
            /\ logged
            /\ k \in 1..3 =>
                  /\ opened' = {cur}
                  /\ \E t \in 0..MaxTime :
                        cur = SessionPath(Distance(Decode(Scenario[1])), t)
            /\ (k = 3 /\ ~WriteFailed) =>
                  NewRow(cur)[ColLost] =
                      StrOfInt(CurrentLost(Field(Decode(Scenario[2]), 5)))
            /\ k = 4 =>
                  /\ opened' = opened \cup {cur}
                  /\ Cardinality(opened') = 2
                  /\ \E t \in 0..MaxTime :
                        cur = SessionPath(Distance(Decode(Scenario[4])), t) ]_vars

(* The four readings were handled and written: the first session holds the *)
(* header and three records, the second the header and one record.         *)
C11_Witness ==
    /\ log_calls = 4
    /\ Cardinality(opened) = 2
    /\ DOMAIN files = opened
    /\ Len(files[current_csv_log[1]]) = 2
    /\ \E f \in opened : Len(files[f]) = 4 /\ files[f][4][ColLost] = <<"1">>
(***************************************************************************)
(* C12: whenever Ctrl+C ends the loop, at whatever point it arrives, the   *)
(* handler of KeyboardInterrupt has run (the last message is its           *)
(* "Exiting..."), and the iteration it interrupted either applied no       *)
(* transition of the session state or appended the record of its reading.  *)
(***************************************************************************)
C12_CancelClean ==
    [][ (running /\ ~running')
        => (/\ out'[Len(out')] = "Exiting"
            /\ \/ SessionState' = SessionState
               \/ \E f \in DOMAIN files' :
                     AppendedTo(f) /\ IsRecordOf(NewRow(f), line')) ]_vars
C14_WriteFailureAbsorbed ==
    [][ /\ (LineStep /\ out'[Len(out')] = "CsvError") =>
              /\ running'
              /\ WriteFailed
              /\ current_csv_log' # None
        /\ (LineStep /\ out'[Len(out')] = "Logged") =>
              /\ current_csv_log' # None
              /\ AppendedTo(current_csv_log'[1])
              /\ IsRecordOfLine(NewRow(current_csv_log'[1]), line')
        /\ (~LineStep \/ out'[Len(out')] \notin {"CsvError", "Logged"}) =>
              files' = files ]_vars

(* A write of the session failed, and the next record of the same session  *)
(* is in the session's file, after the header.                             *)
C14_Witness ==
    /\ log_calls = 2
    /\ out[Len(out)] = "Logged"
    /\ current_csv_log # None
    /\ opened = {current_csv_log[1]}
    /\ current_csv_log[1] \in DOMAIN files
    /\ Len(files[current_csv_log[1]]) = 2
    /\ files[current_csv_log[1]][1] = HeaderRow
(***************************************************************************)
(* C15: every file that holds at least one row has the header as its first *)
(* row and the header in no other row.                                     *)
(***************************************************************************)
C15_OneHeaderFirst ==
    \A f \in DOMAIN files :
        files[f] # <<>> =>
            /\ files[f][1] = HeaderRow
            /\ \A i \in 2..Len(files[f]) : files[f][i] # HeaderRow
(* The rows that the step added at the end of file f. *)
AddedRows(f) ==
    IF f \in DOMAIN files
    THEN SubSeq(files'[f], Len(files[f]) + 1, Len(files'[f]))
    ELSE files'[f]

(***************************************************************************)
(* C16: records reach the files in the arrival order of their lines.  No   *)
(* step removes or moves a row that a file already holds; a step adds rows *)
(* to at most one file, and what it adds, at the end of that file and      *)
(* before the next line is read, is at most one record (after the header   *)
(* when the file is new), which is the record of the line the step read.   *)
(***************************************************************************)
C16_ArrivalOrder ==
    [][ /\ DOMAIN files \subseteq DOMAIN files'
        /\ \A f \in DOMAIN files :
              /\ Len(files'[f]) >= Len(files[f])
              /\ SubSeq(files'[f], 1, Len(files[f])) = files[f]
        /\ Cardinality({f \in DOMAIN files' : AddedRows(f) # <<>>}) <= 1
        /\ \A f \in DOMAIN files' :
              AddedRows(f) # <<>> =>
                  /\ LineStep
                  /\ \/ AddedRows(f) = <<NewRow(f)>>
                     \/ AddedRows(f) = <<HeaderRow, NewRow(f)>>
                  /\ IsRecordOfLine(NewRow(f), line') ]_vars

(* A file holds the record of a DATA line and, after it, the record of the *)
(* LOST line that arrived later.                                           *)
C16_Witness ==
    /\ IsLost(line)
    /\ \E f \in DOMAIN files :
          /\ Len(files[f]) = 3
          /\ files[f][2][ColEvent] = <<"DATA">>
          /\ files[f][3][ColEvent] = <<"LOST">>
(***************************************************************************)
(* C17: an accepted DATA reading that is not a transient zero (it is not   *)
(* the case that lastDistance is above 0 and the distance read is 0.0)     *)
(* sets lastLostCount to the integer parse of its Lost field, 0 when the   *)
(* field does not parse, and its record is appended to the current session *)
(* (unless the write fails and is reported) with the Lost text as read.    *)
(***************************************************************************)
C17_NonTransientUpdatesLost ==
    [][ (/\ LineStep
         /\ Accepted(line')
         /\ ~(/\ last_distance # None
              /\ FGt(last_distance[1], Zero)
              /\ FEq(Distance(line'), Zero)))
        => (/\ last_lost' = Some(CurrentLost(Field(line', 5)))
            /\ current_csv_log' # None
            /\ \/ WriteFailed
               \/ /\ AppendedTo(current_csv_log'[1])
                  /\ IsRecordOf(NewRow(current_csv_log'[1]), line')
                  /\ NewRow(current_csv_log'[1])[ColLost] = Field(line', 5)) ]_vars
(***************************************************************************)
(* C18: whenever the TotalPackets field of a DATA line parses to the       *)
(* number 0, in whatever textual form, the persisted TotalPackets is the   *)
(* line's Received field.                                                  *)
(***************************************************************************)
C18_ParsedZeroSubstituted ==
    [][ (DataRecordAppended /\ ParseFloat(Field(line', 8)) = Some(Zero))
        => NewRow(current_csv_log'[1])[ColTotalPackets] = Field(line', 4) ]_vars

(***************************************************************************)
(* C18 amended: of the TotalPackets texts that parse to the number 0, only *)
(* the text "0" (surrounding whitespace aside) is replaced by the line's   *)
(* Received field in the persisted record; every other form, such as "00", *)
(* is persisted as read.                                                   *)
(***************************************************************************)
C18_OnlyTextZeroSubstituted ==
    [][ (DataRecordAppended /\ ParseFloat(Field(line', 8)) = Some(Zero))
        => /\ Strip(Field(line', 8)) = <<"0">> =>
                 NewRow(current_csv_log'[1])[ColTotalPackets] = Field(line', 4)
           /\ Strip(Field(line', 8)) # <<"0">> =>
                 NewRow(current_csv_log'[1])[ColTotalPackets] = Field(line', 8) ]_vars

(* A record whose line had TotalPackets "00" was persisted with "00". *)
C18_Witness ==
    /\ Accepted(line)
    /\ out[Len(out)] = "Logged"
    /\ Field(line, 8) = <<"00">>
    /\ ParseFloat(Field(line, 8)) = Some(Zero)
    /\ current_csv_log # None
    /\ files[current_csv_log[1]][Len(files[current_csv_log[1]])][ColTotalPackets]
         = <<"00">>
    /\ Field(line, 4) # <<"00">>
(* The step read an accepted DATA reading that is the first one or exceeds *)
(* lastDistance, which is to exceed every earlier reading when             *)
(* lastDistance is their maximum.                                          *)
ExceedsAllEarlier ==
    /\ LineStep
    /\ Accepted(line')
    /\ (last_distance = None \/ FGt(Distance(line'), last_distance[1]))

(***************************************************************************)
(* C19: lastDistance is unset until the first accepted DATA reading and is *)
(* from then on the maximum of the distances read: an accepted reading     *)
(* sets it to the larger of itself and the reading, no other step changes  *)
(* it; and the number of session identities opened so far grows by one     *)
(* with every reading that exceeds all earlier ones (the first included)   *)
(* and with no other step.                                                 *)
(***************************************************************************)
C19_MaxDistanceCountsSessions ==
    [][ /\ last_distance' =
              (IF LineStep /\ Accepted(line')
               THEN (IF ExceedsAllEarlier THEN Some(Distance(line'))
                     ELSE last_distance)
               ELSE last_distance)
        /\ Cardinality(opened') =
              Cardinality(opened) + (IF ExceedsAllEarlier THEN 1 ELSE 0) ]_vars
(***************************************************************************)
(* C20: between two lines, the current session identity, lastDistance and  *)
(* lastLostCount are all set or all unset, and when they are set the       *)
(* distance in the name of the current session is lastDistance written     *)
(* with 2 decimals.                                                        *)
(***************************************************************************)
C20_SessionStateTogether ==
    running =>
        /\ (current_csv_log = None) = (last_distance = None)
        /\ (last_distance = None) = (last_lost = None)
        /\ current_csv_log # None =>
              \E t \in 0..MaxTime :
                  current_csv_log[1] =
                      "lora_data_" \o Fmt2(last_distance[1]) \o "m_"
                          \o Strftime(t) \o ".csv"

(* A session is open whose lastDistance, 10.00390625, is not the distance  *)
(* of the last reading and is written as 10.00 in the session's name.      *)
C20_Witness ==
    /\ running
    /\ current_csv_log # None
    /\ last_lost # None
    /\ last_distance = Some(Num(2561))
    /\ Accepted(line)
    /\ FGt(last_distance[1], Distance(line))
    /\ \E t \in 0..MaxTime :
          current_csv_log[1] = "lora_data_10.00m_" \o Strftime(t) \o ".csv"
====
